---- MODULE Spec2Model ----
(***************************************************************************)
(* A model of src/objeto_imis_client.py: the IMIS client's construction    *)
(* (configuration validation and the token handshake) and fetch_iqa's      *)
(* pagination loop with the decoding and flattening of each page.          *)
(*                                                                         *)
(* The remote service is the environment: every HTTP call is split at the  *)
(* network boundary into the step that issues the request (the request is  *)
(* then in flight) and the step that receives the server's reply, which is *)
(* drawn from a bounded set of replies.                                    *)
(***************************************************************************)
EXTENDS Integers, Sequences, FiniteSets, TLC

(***************************************************************************)
(* Python / JSON values.  A value is a record tagged with its type, so     *)
(* that values of different types can be compared.  Python's None is       *)
(* JSON's null.                                                            *)
(***************************************************************************)
None == [t |-> "null"]
JBool(b) == [t |-> "bool", b |-> b]
JStr(s) == [t |-> "str", s |-> s]
JNum(n) == [t |-> "num", n |-> n]
JList(l) == [t |-> "list", l |-> l]
JDict(d) == [t |-> "dict", d |-> d]

\* The empty dict {} (a function with no keys).
EmptyDict == [k \in {} |-> None]

IsDict(v) == v.t = "dict"

\* Python truthiness: bool(v), as `not x`, `if x` and `while x` use it.
Truthy(v) ==
  CASE v.t = "null" -> FALSE
    [] v.t = "bool" -> v.b
    [] v.t = "str" -> v.s # ""
    [] v.t = "num" -> v.n # 0
    [] v.t = "list" -> v.l # <<>>
    [] v.t = "dict" -> DOMAIN v.d # {}

\* str(v) as an f-string formats it (scalars only).
PyStr(v) ==
  CASE v.t = "null" -> "None"
    [] v.t = "bool" -> IF v.b THEN "True" ELSE "False"
    [] v.t = "str" -> v.s
    [] v.t = "num" -> ToString(v.n)

\* The outcome of a call: a returned value, or a raised exception.
Ok(v) == [exc |-> "none", msg |-> "", val |-> v]
Raise(e) == [exc |-> e, msg |-> "", val |-> None]
RaiseMsg(e, m) == [exc |-> e, msg |-> m, val |-> None]

\* v.get(key, default): only a dict has .get.
Get(v, key, default) ==
  IF ~IsDict(v) THEN Raise("AttributeError")
  ELSE IF key \in DOMAIN v.d THEN Ok(v.d[key]) ELSE Ok(default)

\* v[key] with a string key.
Subscript(v, key) ==
  IF ~IsDict(v) THEN Raise("TypeError")
  ELSE IF key \in DOMAIN v.d THEN Ok(v.d[key]) ELSE Raise("KeyError")

\* `for x in v`: the elements in order.  A str or a dict iterates over strs
\* (its characters, its keys); every caller fails on the first str element
\* whatever it holds, so one stands for them all.
PyIter(v) ==
  CASE v.t = "list" -> Ok(v.l)
    [] v.t = "str" -> Ok(IF v.s = "" THEN <<>> ELSE <<JStr(v.s)>>)
    [] v.t = "dict" ->
         Ok(IF DOMAIN v.d = {} THEN <<>>
            ELSE <<JStr(CHOOSE k \in DOMAIN v.d : TRUE)>>)
    [] OTHER -> Raise("TypeError")

\* rec[name] = v on a Python dict held as a function over its keys.
DictSet(rec, name, v) ==
  [k \in (DOMAIN rec) \cup {name} |-> IF k = name THEN v ELSE rec[k]]

(***************************************************************************)
(* log_error / log_info: one formatted message on one of two channels.     *)
(***************************************************************************)
log_error(message) == [level |-> "Error", message |-> message]
log_info(message) == [level |-> "Info", message |-> message]

(***************************************************************************)
(* simplify_data and its inner flatten_record.                             *)
(***************************************************************************)
\* A variant of pair_value that never looks inside a dict "Value".
pair_value_raw(value) == Get(value, "Value", None)

\* The value flatten_record stores for one pair: the "$value" member of a
\* "Value" that is a dict (the dict itself when it has none), else "Value".
pair_value(value) ==
  LET V == Get(value, "Value", None)
  IN IF V.exc # "none" THEN Raise(V.exc)
     ELSE IF IsDict(V.val) THEN Get(V.val, "$value", V.val)
     ELSE V

\* flatten_record's for loop over value_pairs, from rec.
RECURSIVE flatten_pairs(_, _)
flatten_pairs(value_pairs, rec) ==
  IF value_pairs = <<>> THEN Ok(rec)
  ELSE LET value == Head(value_pairs)
           v == pair_value(value)
       IN IF v.exc # "none" THEN Raise(v.exc)
          ELSE LET name == Subscript(value, "Name")
               IN IF name.exc # "none" THEN Raise(name.exc)
                  ELSE flatten_pairs(Tail(value_pairs),
                                     DictSet(rec, name.val.s, v.val))

flatten_record(row) ==
  LET props == Subscript(row, "Properties")
  IN IF props.exc # "none" THEN Raise(props.exc)
     ELSE LET vals == Subscript(props.val, "$values")
          IN IF vals.exc # "none" THEN Raise(vals.exc)
             ELSE LET value_pairs == PyIter(vals.val)
                  IN IF value_pairs.exc # "none" THEN Raise(value_pairs.exc)
                     ELSE flatten_pairs(value_pairs.val, EmptyDict)

\* The list comprehension [flatten_record(item) for item in rows].
RECURSIVE flatten_rows(_, _)
flatten_rows(rows, acc) ==
  IF rows = <<>> THEN Ok(acc)
  ELSE LET rec == flatten_record(Head(rows))
       IN IF rec.exc # "none" THEN Raise(rec.exc)
          ELSE flatten_rows(Tail(rows), Append(acc, rec.val))

simplify_data(data) ==
  LET Items == Get(data, "Items", JDict(EmptyDict))
  IN IF Items.exc # "none" THEN Raise(Items.exc)
     ELSE LET vals == Get(Items.val, "$values", JList(<<>>))
          IN IF vals.exc # "none" THEN Raise(vals.exc)
             ELSE LET rows == PyIter(vals.val)
                  IN IF rows.exc # "none" THEN Raise(rows.exc)
                     ELSE flatten_rows(rows.val, <<>>)

(***************************************************************************)
(* Server replies.  A reply is a transport failure, or an HTTP response    *)
(* with a status and a body; a body is text that is not JSON, or a JSON    *)
(* value.                                                                  *)
(***************************************************************************)
TransportFailure == [kind |-> "error"]
Http(status, body) == [kind |-> "http", status |-> status, body |-> body]
NotJson == [json |-> FALSE]
Json(v) == [json |-> TRUE, value |-> v]

\* response.raise_for_status() raises for a 4xx or 5xx status.
raise_for_status(status) == status >= 400 /\ status < 600

\* response.json()
response_json(response) ==
  IF response = None THEN Raise("AttributeError")
  ELSE IF ~response.body.json THEN Raise("JSONDecodeError")
  ELSE Ok(response.body.value)

\* make_request, from the server's reply on: the response, or None with an
\* error logged.
make_request(reply) ==
  IF reply.kind = "error" \/ raise_for_status(reply.status)
  THEN [val |-> None,
        logs |-> <<log_error("Request failed: " \o
                     (IF reply.kind = "error" THEN "ConnectionError"
                      ELSE "HTTPError"))>>]
  ELSE [val |-> reply, logs |-> <<>>]

\* A variant of has_next_of whose default is True.
has_next_default_true(data) == Get(data, "HasNext", JBool(TRUE)).val

\* data.get("HasNext", False)
has_next_of(data) == Get(data, "HasNext", JBool(FALSE)).val

\* process_response: the page, None with an error logged when the decoding
\* raises one of the two exceptions it catches, or the exception it lets by.
process_response(response) ==
  LET data == response_json(response)
      caught == {"JSONDecodeError", "KeyError"}
      failed(e) == IF e \in caught
                   THEN [exc |-> "none", val |-> None,
                         logs |-> <<log_error("Error processing response: " \o e)>>]
                   ELSE [exc |-> e, val |-> None, logs |-> <<>>]
  IN IF data.exc # "none" THEN failed(data.exc)
     ELSE LET recs == simplify_data(data.val)
          IN IF recs.exc # "none" THEN failed(recs.exc)
             ELSE [exc |-> "none",
                   val |-> [items |-> recs.val,
                            has_next |-> has_next_of(data.val),
                            count |-> Get(data.val, "TotalCount", JNum(0)).val],
                   logs |-> <<>>]

(***************************************************************************)
(* IMISClient.__init__, authenticate and request_token.                    *)
(***************************************************************************)
\* A variant of init_validate that forgets the base URL check.
init_validate_no_base_url(config) ==
  IF ~Truthy(config.USERNAME)
  THEN RaiseMsg("ValueError", "Username is required in the configuration.")
  ELSE IF ~Truthy(config.PWD)
  THEN RaiseMsg("ValueError", "Password is required in the configuration.")
  ELSE Ok(None)

\* The three presence checks of __init__, in order.
init_validate(config) ==
  IF ~Truthy(config.BASE_URL)
  THEN RaiseMsg("ValueError",
                "Base URL is required in the configuration (e.g. https://demo123.imiscloud.com)")
  ELSE IF ~Truthy(config.USERNAME)
  THEN RaiseMsg("ValueError", "Username is required in the configuration.")
  ELSE IF ~Truthy(config.PWD)
  THEN RaiseMsg("ValueError", "Password is required in the configuration.")
  ELSE Ok(None)

\* The check authenticate makes before it asks for a token.
authenticate_check(username, password) ==
  IF ~Truthy(username) \/ ~Truthy(password)
  THEN RaiseMsg("ValueError",
                "Username and password are required for authentication.")
  ELSE Ok(None)

\* The request request_token hands to make_request.
token_request(url_base, username, password) ==
  [method |-> "POST",
   url |-> PyStr(url_base) \o "/token",
   data |-> [grant_type |-> "password", username |-> username,
             password |-> password],
   headers |-> [k \in {"Content-Type"} |-> "application/x-www-form-urlencoded"]]

\* request_token, from the server's reply on.
request_token(reply) ==
  LET r == make_request(reply)
      data == response_json(r.val)
  IN IF data.exc # "none" THEN [exc |-> data.exc, msg |-> "", val |-> None, logs |-> r.logs]
     ELSE LET tok == Get(data.val, "access_token", None)
          IN IF tok.exc # "none"
             THEN [exc |-> tok.exc, msg |-> "", val |-> None, logs |-> r.logs]
             ELSE [exc |-> "none", msg |-> "",
                   val |-> JStr("Bearer " \o PyStr(tok.val)), logs |-> r.logs]

\* authenticate, from the server's reply on.
authenticate(reply) ==
  LET token_ == request_token(reply)
  IN IF token_.exc # "none" THEN token_
     ELSE IF ~Truthy(token_.val)
     THEN [exc |-> "Exception", msg |-> "Failed to authenticate with the API",
           val |-> None, logs |-> token_.logs]
     ELSE token_

(***************************************************************************)
(* Bounds of the model and the inputs drawn within them.                   *)
(***************************************************************************)
\* Rows in one page of a reply.
MaxPage == 2
\* Rows the server sends over one fetch_iqa invocation.
MaxTotal == 3
\* GETs of one fetch_iqa invocation that the recorded history follows.
MaxCalls == 3
\* The largest limit argument.
MaxLimit == 3
\* The largest page_size argument.
MaxPageSize == 2

\* A marker for a key that a JSON object does not hold (not a value).
Absent == [t |-> "absent"]

SeqsUpTo(S, n) == UNION {[1..k -> S] : k \in 0..n}

Min(a, b) == IF a < b THEN a ELSE b

ConfigValues(v) == {None, JStr(""), JStr(v)}
Configs ==
  [BASE_URL : ConfigValues("https://h"), USERNAME : ConfigValues("u"),
   PWD : ConfigValues("p")]

TokenReplies ==
  {TransportFailure, Http(401, NotJson), Http(200, NotJson),
   Http(200, Json(JList(<<>>))),
   Http(200, Json(JDict(EmptyDict))),
   Http(200, Json(JDict([access_token |-> None]))),
   Http(200, Json(JDict([access_token |-> JStr("xyz")])))}

\* {"Name": n, "Value": v}, and the pair with no "Value" key.
Pair(n, v) == JDict([Name |-> JStr(n), Value |-> v])
\* {"Properties": {"$values": pairs}}
Row(pairs) == JDict([Properties |-> JDict([k \in {"$values"} |-> JList(pairs)])])

DollarValue(v) == JDict([k \in {"$value"} |-> v])

GoodRows ==
  {Row(<<Pair("A", JStr("x")), Pair("B", DollarValue(JNum(5)))>>),
   Row(<<Pair("A", JStr("y"))>>)}
\* A row with no "Properties" key (KeyError), and one whose "Properties" is
\* null (TypeError).
BadRows == {JDict(EmptyDict), JDict([Properties |-> None])}

\* A JSON object holding the keys whose value is not Absent.
PageBody(Items, HasNext, TotalCount) ==
  LET all == [Items |-> Items, HasNext |-> HasNext, TotalCount |-> TotalCount]
  IN Json(JDict([k \in {x \in DOMAIN all : all[x] # Absent} |-> all[k]]))

\* The pages of a reply: up to n rows, where a bad row (at which the decoding
\* stops) is the last one.
PageRows(n) ==
  SeqsUpTo(GoodRows, n)
  \cup {Append(rows, bad) : rows \in SeqsUpTo(GoodRows, n - 1), bad \in BadRows}

\* The (HasNext, TotalCount) members of a page body.
PageFlags ==
  {<<Absent, Absent>>, <<JBool(TRUE), JNum(7)>>, <<JBool(FALSE), JNum(7)>>}

\* The replies to a GET when the server has `room` rows left to send.
PageReplies(room) ==
  {TransportFailure, Http(500, NotJson), Http(304, NotJson),
   Http(200, NotJson), Http(200, Json(JList(<<>>))),
   Http(200, PageBody(None, JBool(TRUE), Absent)),
   Http(200, PageBody(Absent, Absent, Absent))}
  \cup
  {Http(200, PageBody(JDict([k \in {"$values"} |-> JList(rows)]), f[1], f[2])) :
     rows \in PageRows(Min(MaxPage, room)), f \in PageFlags}

FetchArgs ==
  [iqa_path : {"$/Q"},
   limit : {None} \cup {JNum(n) : n \in 0..MaxLimit},
   page_size : 1..MaxPageSize,
   last_updated : {None, JStr("2024")}]

(***************************************************************************)
(* State.                                                                  *)
(***************************************************************************)
VARIABLES
  pc,        \* where the program is: "new", "token_wait", "failed" (the
             \* constructor raised), "ready" (a client exists), "loop" (at
             \* fetch_iqa's while), "get_wait", "returned", "raised"
  config,    \* the IMISClientConfig given to the constructor
  base_url,  \* self.base_url
  token,     \* self.token
  args,      \* fetch_iqa's arguments
  items,     \* fetch_iqa's local items
  has_next,  \* fetch_iqa's local has_next
  offset,    \* fetch_iqa's local offset
  inflight,  \* the HTTP request awaiting its reply, or None
  result,    \* what fetch_iqa returned
  err,       \* the exception that escaped the operation
  reqs,      \* history: the requests the current operation issued
  replies,   \* history: the replies the current operation received
  log        \* history: the messages the current operation logged

prog == <<pc, config, base_url, token, args, items, has_next, offset,
          inflight, result, err>>
hist == <<reqs, replies, log>>
vars == <<pc, config, base_url, token, args, items, has_next, offset,
          inflight, result, err, reqs, replies, log>>

NoError == [type |-> "none", msg |-> ""]
Error(o) == [type |-> o.exc, msg |-> o.msg]

NoArgs == [iqa_path |-> "", limit |-> None, page_size |-> 0, last_updated |-> None]

Init ==
  /\ pc = "new"
  /\ config = [BASE_URL |-> None, USERNAME |-> None, PWD |-> None]
  /\ base_url = None
  /\ token = None
  /\ args = NoArgs
  /\ items = <<>>
  /\ has_next = None
  /\ offset = 0
  /\ inflight = None
  /\ result = None
  /\ err = NoError
  /\ reqs = <<>>
  /\ replies = <<>>
  /\ log = <<>>

(***************************************************************************)
(* IMISClient(config), up to the token POST.                               *)
(***************************************************************************)
Construct(cfg) ==
  /\ pc = "new"
  /\ config' = cfg
  /\ LET v == init_validate(cfg)
         a == authenticate_check(cfg.USERNAME, cfg.PWD)
     IN IF v.exc # "none"
        THEN /\ pc' = "failed"
             /\ err' = Error(v)
             /\ UNCHANGED <<base_url, inflight, reqs>>
        ELSE /\ base_url' = cfg.BASE_URL
             /\ IF a.exc # "none"
                THEN /\ pc' = "failed"
                     /\ err' = Error(a)
                     /\ UNCHANGED <<inflight, reqs>>
                ELSE /\ pc' = "token_wait"
                     /\ inflight' = token_request(cfg.BASE_URL, cfg.USERNAME, cfg.PWD)
                     /\ reqs' = Append(reqs, inflight')
                     /\ err' = NoError
  /\ UNCHANGED <<token, args, items, has_next, offset, result, replies, log>>

\* The reply to the token POST: the rest of authenticate and of __init__.
TokenReply(reply) ==
  /\ pc = "token_wait"
  /\ LET t == authenticate(reply)
     IN /\ log' = log \o t.logs
        /\ IF t.exc # "none"
           THEN pc' = "failed" /\ err' = Error(t) /\ UNCHANGED token
           ELSE pc' = "ready" /\ token' = t.val /\ UNCHANGED err
  /\ inflight' = None
  /\ replies' = Append(replies, reply)
  /\ UNCHANGED <<config, base_url, args, items, has_next, offset, result, reqs>>

(***************************************************************************)
(* fetch_iqa's helpers.                                                    *)
(***************************************************************************)
construct_path_request(url_base, path, page_size, offset_, last_updated) ==
  LET path_request == PyStr(url_base) \o path \o "&limit=" \o ToString(page_size)
                        \o "&offset=" \o ToString(offset_)
  IN IF Truthy(last_updated)
     THEN path_request \o "&parameter=" \o PyStr(last_updated)
     ELSE path_request

\* A variant of extend that puts the page in front.
extend_at_front(list, page) == page \o list

\* items.extend(page)
extend(list, page) == list \o page

\* A variant of advance that steps by the page size asked for.
advance_by_page_size(offset_, page) == offset_ + args.page_size

\* offset += len(page)
advance(offset_, page) == offset_ + Len(page)

\* A variant of loop_condition that forgets the limit.
loop_condition_no_limit(has_next_, limit, offset_) == Truthy(has_next_)

\* The while condition of fetch_iqa.
loop_condition(has_next_, limit, offset_) ==
  IF ~Truthy(has_next_) THEN FALSE
  ELSE IF limit = None THEN TRUE
  ELSE offset_ < limit.n

(***************************************************************************)
(* fetch_iqa.                                                              *)
(***************************************************************************)
\* The call: the locals before the loop.
FetchCall(a) ==
  /\ pc = "ready"
  /\ pc' = "loop"
  /\ args' = [a EXCEPT !.iqa_path = "/api/IQA?QueryName=" \o a.iqa_path]
  /\ items' = <<>>
  /\ has_next' = JBool(TRUE)
  /\ offset' = 0
  /\ result' = None
  /\ err' = NoError
  /\ reqs' = <<>>
  /\ replies' = <<>>
  /\ log' = <<>>
  /\ UNCHANGED <<config, base_url, token, inflight>>

\* The while condition holds: the GET of this iteration goes out.
SendGetStep ==
  /\ pc = "loop"
  /\ loop_condition(has_next, args.limit, offset)
  /\ pc' = "get_wait"
  /\ inflight' =
       [method |-> "GET",
        url |-> construct_path_request(base_url, args.iqa_path, args.page_size,
                                       offset, args.last_updated),
        headers |-> [Authorization |-> PyStr(token)]]
  /\ UNCHANGED <<config, base_url, token, args, items, has_next, offset, result, err>>

\* The rest of the iteration, from the reply to the GET.  A response that
\* make_request returns has passed raise_for_status, so `if response` fails
\* only for None.
GetReplyStep(reply) ==
  /\ pc = "get_wait"
  /\ inflight' = None
  /\ LET response == make_request(reply).val
         r == process_response(response)
     IN IF response # None /\ r.exc # "none"
        THEN /\ pc' = "raised"
             /\ err' = Error([exc |-> r.exc, msg |-> ""])
             /\ UNCHANGED <<items, has_next, offset, result>>
        ELSE IF response # None /\ r.val # None
        THEN /\ items' = extend(items, r.val.items)
             /\ has_next' = r.val.has_next
             /\ offset' = advance(offset, r.val.items)
             /\ pc' = "loop"
             /\ UNCHANGED <<result, err>>
        ELSE /\ pc' = "returned"
             /\ result' = JList(items)
             /\ UNCHANGED <<items, has_next, offset, err>>
  /\ UNCHANGED <<config, base_url, token, args>>

\* What one iteration logs, given the reply (offset_ is the offset before it).
iteration_logs(reply, offset_) ==
  LET m == make_request(reply)
      r == process_response(m.val)
  IN IF m.val = None THEN m.logs
     ELSE IF r.exc # "none" \/ r.val = None THEN r.logs
     ELSE <<log_info("Retrieving: " \o ToString(offset_ + Len(r.val.items))
                       \o " of " \o PyStr(r.val.count))>>

\* The while condition fails: return items.
Return ==
  /\ pc = "loop"
  /\ ~loop_condition(has_next, args.limit, offset)
  /\ pc' = "returned"
  /\ result' = JList(items)
  /\ UNCHANGED <<config, base_url, token, args, items, has_next, offset, inflight, err>>
  /\ UNCHANGED hist

\* fetch_iqa is over: the caller has its list (or its exception), the locals
\* are gone and the client is ready for another call.
FetchDone ==
  /\ pc \in {"returned", "raised"}
  /\ pc' = "ready"
  /\ args' = NoArgs
  /\ items' = <<>>
  /\ has_next' = None
  /\ offset' = 0
  /\ result' = None
  /\ err' = NoError
  /\ reqs' = <<>>
  /\ replies' = <<>>
  /\ log' = <<>>
  /\ UNCHANGED <<config, base_url, token, inflight>>

SendGet ==
  /\ Len(reqs) < MaxCalls
  /\ SendGetStep
  /\ reqs' = Append(reqs, inflight')
  /\ UNCHANGED <<replies, log>>

GetReply(reply) ==
  /\ GetReplyStep(reply)
  /\ replies' = Append(replies, reply)
  /\ log' = log \o iteration_logs(reply, offset)
  /\ UNCHANGED reqs

Next ==
  \/ \E cfg \in Configs : Construct(cfg)
  \/ \E reply \in TokenReplies : TokenReply(reply)
  \/ \E a \in FetchArgs : FetchCall(a)
  \/ SendGet
  \/ \E reply \in PageReplies(MaxTotal - Len(items)) : GetReply(reply)
  \/ Return
  \/ FetchDone

Spec == Init /\ [][Next]_vars

(***************************************************************************)
(* The same program with no history kept, so that a fetch_iqa that never   *)
(* ends is a cycle of finitely many states.  The program is sequential and *)
(* always takes its next step, and every HTTP call completes: each step is *)
(* weakly fair.  Nothing is assumed of what the server answers.            *)
(***************************************************************************)
SendGetLive == SendGetStep /\ UNCHANGED hist

GetReplyLive(reply) == GetReplyStep(reply) /\ UNCHANGED hist

AnyGetReplyLive ==
  \E reply \in PageReplies(MaxTotal - Len(items)) : GetReplyLive(reply)

LiveNext ==
  \/ \E cfg \in Configs : Construct(cfg)
  \/ \E reply \in TokenReplies : TokenReply(reply)
  \/ \E a \in FetchArgs : FetchCall(a)
  \/ SendGetLive
  \/ AnyGetReplyLive
  \/ Return
  \/ FetchDone

LiveSpec ==
  /\ Init
  /\ [][LiveNext]_vars
  /\ WF_vars(SendGetLive)
  /\ WF_vars(AnyGetReplyLive)
  /\ WF_vars(Return)

(***************************************************************************)
(* process_response on its own: the reply is drawn from the pages of up to *)
(* FlatMaxRows rows holding up to FlatMaxPairs pairs between them, and the *)
(* one step decodes it.                                                    *)
(***************************************************************************)
FlatMaxRows == 2
FlatMaxPairs == 2

FlatValues ==
  {JStr("x"), None, DollarValue(JNum(5)), JDict([other |-> JNum(1)])}
\* The pairs: a name and a value, a pair with no "Value", one with no "Name".
FlatPairs ==
  {Pair(n, v) : n \in {"A", "B"}, v \in FlatValues}
  \cup {JDict([Name |-> JStr("A")]), JDict([Value |-> JStr("x")])}

\* The sequences of at most `rows` rows with at most `pairs` pairs in all.
RECURSIVE FlatPages(_, _)
FlatPages(rows, pairs) ==
  IF rows = 0 THEN {<<>>}
  ELSE {<<>>} \cup
       UNION {{<<Row(r)>> \o rest : rest \in FlatPages(rows - 1, pairs - Len(r))} :
                r \in SeqsUpTo(FlatPairs, pairs)}

FlatInit ==
  /\ pc = "decode"
  /\ replies \in
       {<<Http(200, PageBody(JDict([k \in {"$values"} |-> JList(rows)]),
                             JBool(TRUE), JNum(7)))>> :
          rows \in FlatPages(FlatMaxRows, FlatMaxPairs)}
  /\ config = [BASE_URL |-> None, USERNAME |-> None, PWD |-> None]
  /\ base_url = None
  /\ token = None
  /\ args = NoArgs
  /\ items = <<>>
  /\ has_next = None
  /\ offset = 0
  /\ inflight = None
  /\ result = None
  /\ err = NoError
  /\ reqs = <<>>
  /\ log = <<>>

\* result is the page process_response returns (None when it logs an error).
Decode ==
  /\ pc = "decode"
  /\ pc' = "decoded"
  /\ LET r == process_response(make_request(replies[1]).val)
     IN /\ result' = r.val
        /\ err' = Error([exc |-> r.exc, msg |-> ""])
        /\ log' = log \o r.logs
  /\ UNCHANGED <<config, base_url, token, args, items, has_next, offset,
                 inflight, reqs, replies>>

FlatSpec == FlatInit /\ [][Decode]_vars

(***************************************************************************)
(* What the claims speak of, stated from the documented interface: the     *)
(* reply shapes of the remote API and the URL of a page request.           *)
(***************************************************************************)
\* fetch_iqa is running or has ended.
InFetch == pc \in {"loop", "get_wait", "returned", "raised"}

\* The HTTP layer has no response to give: a transport failure or a status
\* that is not 2xx.
NoResponse(reply) ==
  IF reply.kind = "error" THEN TRUE ELSE reply.status \notin 200..299

IsList(v) == v.t = "list"
HasKey(v, key) == IF IsDict(v) THEN key \in DOMAIN v.d ELSE FALSE

\* {"Properties": {"$values": [{"Name": ..., ...}, ...]}}
RowShape(row) ==
  /\ HasKey(row, "Properties")
  /\ HasKey(row.d.Properties, "$values")
  /\ IsList(row.d.Properties.d["$values"])
  /\ \A j \in 1..Len(row.d.Properties.d["$values"].l) :
       HasKey(row.d.Properties.d["$values"].l[j], "Name")

\* {HasNext, TotalCount, Items: {$values: [row, ...]}}, each member optional.
BodyShape(v) ==
  /\ IsDict(v)
  /\ HasKey(v, "Items") =>
       /\ IsDict(v.d.Items)
       /\ HasKey(v.d.Items, "$values") =>
            /\ IsList(v.d.Items.d["$values"])
            /\ \A i \in 1..Len(v.d.Items.d["$values"].l) :
                 RowShape(v.d.Items.d["$values"].l[i])

\* A page fetch that fails: no response, or a body that cannot be decoded.
PageFetchFailed(reply) ==
  IF NoResponse(reply) THEN TRUE
  ELSE IF ~reply.body.json THEN TRUE
  ELSE ~BodyShape(reply.body.value)

\* The rows of a page body of the documented shape.
RowsOf(v) ==
  IF HasKey(v, "Items") /\ HasKey(v.d.Items, "$values")
  THEN v.d.Items.d["$values"].l ELSE <<>>

\* The flattened records of a decoded page.
RecordsOf(reply) == simplify_data(reply.body.value).val

\* The records of the pages among rs that were decoded, in order.
RECURSIVE Accumulated(_)
Accumulated(rs) ==
  IF rs = <<>> THEN <<>>
  ELSE LET front == Accumulated(SubSeq(rs, 1, Len(rs) - 1))
           last == rs[Len(rs)]
       IN IF PageFetchFailed(last) THEN front ELSE front \o RecordsOf(last)

IsPrefix(a, b) == Len(a) <= Len(b) /\ a = SubSeq(b, 1, Len(a))

\* GET {base_url}/api/IQA?QueryName=<path>&limit=<n>&offset=<n>[&parameter=<date>]
PageUrl(n) ==
  base_url.s \o "/api/IQA?QueryName=" \o "$/Q" \o "&limit="
    \o ToString(args.page_size) \o "&offset=" \o ToString(n)
    \o (IF args.last_updated = None THEN ""
        ELSE "&parameter=" \o args.last_updated.s)

MissingField(cfg) ==
  \E f \in {"BASE_URL", "USERNAME", "PWD"} : cfg[f] \in {None, JStr("")}

(***************************************************************************)
(* C1.  A configuration with an empty or absent base URL, username or      *)
(* password makes the constructor fail with the validation error before    *)
(* any HTTP call: no request was issued, none is in flight, no token.      *)
(***************************************************************************)
C1_ValidationBeforeNetwork ==
  (pc # "new" /\ MissingField(config)) =>
     /\ pc = "failed"
     /\ err.type = "ValueError"
     /\ reqs = <<>>
     /\ replies = <<>>
     /\ inflight = None
     /\ token = None

C1_Witness ==
  /\ pc = "failed"
  /\ config = [BASE_URL |-> JStr("https://h"), USERNAME |-> JStr("u"),
               PWD |-> JStr("")]
  /\ err = [type |-> "ValueError",
            msg |-> "Password is required in the configuration."]

(***************************************************************************)
(* C2.  When the token POST gets no response from the HTTP layer, the      *)
(* constructor fails with the authentication error "Failed to authenticate *)
(* with the API" and no client holds a token.                              *)
(***************************************************************************)
C2_AuthenticationError ==
  (pc \in {"failed", "ready"} /\ Len(replies) = 1 /\ NoResponse(replies[1])) =>
     /\ pc = "failed"
     /\ err = [type |-> "Exception",
               msg |-> "Failed to authenticate with the API"]
     /\ token = None

(***************************************************************************)
(* C3.  A page fetch that fails (no response, or a body that cannot be     *)
(* decoded) is the last one: fetch_iqa has returned, with no exception,    *)
(* the records of the pages decoded before it, and issued no further call. *)
(***************************************************************************)
C3_FailureStopsQuietly ==
  InFetch =>
    \A i \in 1..Len(replies) :
      PageFetchFailed(replies[i]) =>
        /\ i = Len(replies)
        /\ Len(reqs) = i
        /\ inflight = None
        /\ pc = "returned"
        /\ err = NoError
        /\ result = JList(Accumulated(SubSeq(replies, 1, i - 1)))

(***************************************************************************)
(* C4.  When the first page decodes with HasNext false or absent,          *)
(* fetch_iqa makes exactly one HTTP call and returns exactly that page's   *)
(* flattened records, for any limit (unset or above 0) and page_size.      *)
(***************************************************************************)
FirstPageIsLast ==
  /\ InFetch
  /\ Len(replies) >= 1
  /\ ~PageFetchFailed(replies[1])
  /\ IF HasKey(replies[1].body.value, "HasNext")
     THEN replies[1].body.value.d.HasNext = JBool(FALSE) ELSE TRUE

C4_SinglePage ==
  FirstPageIsLast =>
    /\ Len(reqs) = 1
    /\ Len(replies) = 1
    /\ pc \in {"loop", "returned"}
    /\ pc = "returned" =>
         /\ result = JList(RecordsOf(replies[1]))
         /\ Len(result.l) = Len(RowsOf(replies[1].body.value))

C4_Witness ==
  /\ FirstPageIsLast
  /\ pc = "returned"
  /\ ~HasKey(replies[1].body.value, "HasNext")
  /\ args.limit = JNum(1)
  /\ args.page_size = 1
  /\ Len(result.l) = 2

(***************************************************************************)
(* C5.  The accumulator always holds the records of every decoded page in  *)
(* arrival order, nothing dropped, reordered or duplicated; it only grows  *)
(* at its end, and what fetch_iqa returns is the accumulator.              *)
(***************************************************************************)
ItemsAreThePages ==
  InFetch =>
    /\ items = Accumulated(replies)
    /\ pc = "returned" => result = JList(items)

ItemsGrowAtTheEnd ==
  pc \in {"loop", "get_wait"} =>
    /\ IsPrefix(items, items')
    /\ pc' = "returned" => IsPrefix(items, result'.l)

C5_ArrivalOrder == []ItemsAreThePages /\ [][ItemsGrowAtTheEnd]_vars

C5_Witness ==
  /\ pc = "returned"
  /\ Len(replies) = 2
  /\ ~PageFetchFailed(replies[1])
  /\ ~PageFetchFailed(replies[2])
  /\ Len(RowsOf(replies[1].body.value)) = 2
  /\ Len(RowsOf(replies[2].body.value)) = 1
  /\ result = JList(<<[A |-> JStr("x"), B |-> JNum(5)], [A |-> JStr("y")],
                      [A |-> JStr("x"), B |-> JNum(5)]>>)
  /\ log = <<log_info("Retrieving: 2 of 7"), log_info("Retrieving: 3 of 7")>>

(***************************************************************************)
(* C6.  With a limit, fetch_iqa returns at most limit records.             *)
(***************************************************************************)
C6_LimitIsMaximum ==
  (pc = "returned" /\ args.limit # None) => Len(result.l) <= args.limit.n

(***************************************************************************)
(* C7.  With a limit, and every page holding at most page_size records,    *)
(* fetch_iqa returns at most limit + page_size records.                    *)
(***************************************************************************)
PagesWithinPageSize ==
  \A i \in 1..Len(replies) :
    PageFetchFailed(replies[i]) \/
      Len(RowsOf(replies[i].body.value)) <= args.page_size

C7_OvershootAtMostOnePage ==
  (pc = "returned" /\ args.limit # None /\ PagesWithinPageSize) =>
     Len(result.l) <= args.limit.n + args.page_size

C7_Witness ==
  /\ pc = "returned"
  /\ args.limit = JNum(2)
  /\ args.page_size = 2
  /\ PagesWithinPageSize
  /\ Len(replies) = 2
  /\ Len(result.l) = 3

(***************************************************************************)
(* C8.  Decoding yields one mapping per row of Items.$values, in row       *)
(* order, whose keys are the Names of the row's pairs; each {Name, Value}  *)
(* pair that is the last of its row with that Name maps Name to the $value *)
(* member of a structured Value that has one, to the whole structured      *)
(* Value that has none, and to Value itself otherwise.                     *)
(***************************************************************************)
PairsOf(row) == row.d.Properties.d["$values"].l

\* What the flattening rule gives for a pair that has a Value.
RuleValue(pair) ==
  LET V == pair.d.Value
  IN IF IsDict(V) /\ HasKey(V, "$value") THEN V.d["$value"] ELSE V

LastOfItsName(pairs, j) ==
  \A k \in (j + 1)..Len(pairs) : pairs[k].d.Name # pairs[j].d.Name

\* The page just decoded was of the documented shape.
DecodedPage == pc = "decoded" /\ BodyShape(replies[1].body.value)

C8_LastPairOfEachName ==
  DecodedPage =>
    LET rows == RowsOf(replies[1].body.value)
    IN /\ err = NoError
       /\ result # None
       /\ Len(result.items) = Len(rows)
       /\ \A i \in 1..Len(rows) :
            LET pairs == PairsOf(rows[i])
                rec == result.items[i]
            IN /\ DOMAIN rec = {pairs[j].d.Name.s : j \in 1..Len(pairs)}
               /\ \A j \in 1..Len(pairs) :
                    (HasKey(pairs[j], "Value") /\ LastOfItsName(pairs, j)) =>
                       rec[pairs[j].d.Name.s] = RuleValue(pairs[j])
               /\ pairs = <<Pair("A", JStr("x")), Pair("B", DollarValue(JNum(5)))>>
                    => rec = [A |-> JStr("x"), B |-> JNum(5)]

C8_Witness ==
  /\ DecodedPage
  /\ RowsOf(replies[1].body.value) =
       <<Row(<<Pair("A", JDict([other |-> JNum(1)])),
               Pair("B", DollarValue(JNum(5)))>>)>>
  /\ result.items = <<[A |-> JDict([other |-> JNum(1)]), B |-> JNum(5)]>>

\* C8 as first stated: every {Name, Value} pair of the row maps Name to the
\* value the rule gives for it.
C8_EveryPairMapped ==
  DecodedPage =>
    LET rows == RowsOf(replies[1].body.value)
    IN /\ err = NoError
       /\ result # None
       /\ Len(result.items) = Len(rows)
       /\ \A i \in 1..Len(rows) :
            \A j \in 1..Len(PairsOf(rows[i])) :
              LET pair == PairsOf(rows[i])[j]
              IN HasKey(pair, "Value") =>
                   result.items[i][pair.d.Name.s] = RuleValue(pair)

(***************************************************************************)
(* C9.  offset is the number of records accumulated; the i-th GET carries  *)
(* the number of records of the pages decoded before it (0 for the first), *)
(* and goes out only when the page before it said HasNext and, with a      *)
(* limit, that offset is below the limit.                                  *)
(***************************************************************************)
C9_OffsetIsRecordCount ==
  InFetch =>
    /\ offset = Len(items)
    /\ offset = Len(Accumulated(replies))
    /\ pc = "get_wait" => inflight = reqs[Len(reqs)]
    /\ \A i \in 1..Len(reqs) :
         LET before == Len(Accumulated(SubSeq(replies, 1, i - 1)))
         IN /\ reqs[i].method = "GET"
            /\ reqs[i].url = PageUrl(before)
            /\ i = 1 => before = 0
            /\ i > 1 => /\ ~PageFetchFailed(replies[i - 1])
                        /\ HasKey(replies[i - 1].body.value, "HasNext")
                        /\ replies[i - 1].body.value.d.HasNext = JBool(TRUE)
            /\ args.limit # None => before < args.limit.n

C9_Witness ==
  /\ pc = "get_wait"
  /\ Len(reqs) = 3
  /\ args.page_size = 2
  /\ args.limit = JNum(3)
  /\ args.last_updated = None
  /\ reqs[2].url = "https://h/api/IQA?QueryName=$/Q&limit=2&offset=1"
  /\ inflight.url = "https://h/api/IQA?QueryName=$/Q&limit=2&offset=2"

(***************************************************************************)
(* C10.  A fetch_iqa called with a limit eventually ends, whatever the     *)
(* server answers.                                                         *)
(***************************************************************************)
C10_FetchWithLimitEnds ==
  (pc = "loop" /\ args.limit # None) ~> (pc \in {"returned", "raised"})

====
